---- MODULE Spec2Model ----
(***************************************************************************)
(* homebridge-systemair-ventilator: the accessory's characteristic hooks   *)
(* (src/index.js) and the HTTP retry helper they share, against a device   *)
(* that holds integer registers.                                           *)
(*                                                                         *)
(* Every hook is an async function.  It runs atomically up to its next     *)
(* await, so one hook is modelled by the step that starts it (everything   *)
(* up to the first axios request), one step per settled request            *)
(* (axiosResolves / axiosRejects, including the code that runs after the   *)
(* await), and one step per elapsed retry delay.  Times are milliseconds.  *)
(***************************************************************************)
EXTENDS Integers, Sequences, FiniteSets, TLC

(* ------------------------------ bounds -------------------------------- *)

\* Number of hook invocations the host may have in flight at once.
NumOps == 2
\* RotationSpeed percentages the host may write: 0..MaxPercent.
MaxPercent == 100
\* The device may initially report any level 0..MaxLevel in register 1130.
MaxLevel == 5
\* Register 1110 may report any value in -TimerSlack .. 100 + TimerSlack.
TimerSlack == 50
\* Refresh resets that may be pending (or about to be scheduled) at once.
MaxPendingResets == 2

(* ------------------------- program constants -------------------------- *)

\* axios.create({ timeout: 20000 })
Timeout == 20000
\* retryRequest(url, retries = 3)
DefaultRetriesOff == 3 + 1
DefaultRetries == 3
\* setTimeout(resolve, 1000) between attempts
RetryDelaySlow == 1000 + 1000
RetryDelay == 1000
\* setTimeout(() => ... updateValue(false), 1000)
RefreshResetDelayLate == 1000 + 4000
RefreshResetDelay == 1000
\* upper clamp of getTimer
TimerMax == 100

(* ------------------------------ inputs -------------------------------- *)

Procs == 1..NumOps
Percents == 0..MaxPercent
\* The percentage written when several hooks run at once.
RacePercents == {58}
\* HomeKit passes Active as 0/1 and On as false/true; both are used only for
\* their truthiness, so they are written 0/1 here.
Flags == {0, 1}
DeviceLevels == 0..MaxLevel
RawTimers == (0 - TimerSlack)..(TimerMax + TimerSlack)
\* How long one request takes to settle: at once, halfway, or at the timeout.
Durations == {0, Timeout \div 2, Timeout}
Instant == {0}

(* --------------------------- pure mappings ---------------------------- *)

Truthy(value) == value # 0

NoUrl == [ep |-> "none", reg |-> 0, val |-> 0]
WriteUrl(register, value) == [ep |-> "mwrite", reg |-> register, val |-> value]
ReadUrl(register, count) == [ep |-> "mread", reg |-> register, val |-> count]

\* setActive: /mwrite?{"1130": value ? '1' : '0'}
ActiveUrlOnIsLow(value) == WriteUrl(1130, IF Truthy(value) THEN 2 ELSE 0)
ActiveUrl(value) == WriteUrl(1130, IF Truthy(value) THEN 1 ELSE 0)

\* getActive: response.data["1130"] > 0, returned as 1 / 0
IsActive(data) == IF data > 0 THEN 1 ELSE 0

\* setRotationSpeed: the if / else-if chain that picks the device level
SpeedLevelStrict(value) ==
  IF value = 0 THEN 0
  ELSE IF value < 34 THEN 2
  ELSE IF value < 57 THEN 3
  ELSE 4
SpeedLevel(value) ==
  IF value = 0 THEN 0
  ELSE IF value <= 34 THEN 2
  ELSE IF value <= 57 THEN 3
  ELSE 4

\* getRotationSpeed: speed === 2 ? 25 : speed === 3 ? 45 : speed === 4 ? 70 : 0
SpeedPercentageOnIsLow(speed) ==
  IF speed = 2 \/ speed = 1 THEN 25 ELSE IF speed = 3 THEN 45 ELSE IF speed = 4 THEN 70 ELSE 0
SpeedPercentage(speed) ==
  IF speed = 2 THEN 25 ELSE IF speed = 3 THEN 45 ELSE IF speed = 4 THEN 70 ELSE 0

\* getTimer: the clamp of the raw register value
ClampTimerUpperOnly(timerValue) ==
  IF timerValue > TimerMax THEN TimerMax ELSE timerValue
ClampTimer(timerValue) ==
  IF timerValue < 0 THEN 0
  ELSE IF timerValue > TimerMax THEN TimerMax
  ELSE timerValue

\* setRefresh: if (!value) return;
RefreshSkippedNever(value) == FALSE
RefreshSkipped(value) == ~Truthy(value)

\* Only getTimer wraps retryRequest in try / catch; every other hook lets the
\* error thrown by retryRequest reach the host.
CatchesFailureNowhere(kind) == FALSE
CatchesFailure(kind) == kind = "getTimer"

(* ------------------------------- state -------------------------------- *)

VARIABLES
  reg1130,      \* device register 1130 (power / fan level)
  reg1161,      \* device register 1161 (refresh command)
  writer1130,   \* which hook's write reached register 1130 last
  proc,         \* per invocation slot: the hook running there and its position
  resetTimers,  \* pending setTimeout callbacks of setRefresh (their delays)
  refreshOn     \* value of the refresh switch's On characteristic

vars == <<reg1130, reg1161, writer1130, proc, resetTimers, refreshOn>>

Idle ==
  [pc |-> "idle", kind |-> "none", arg |-> 0, url |-> NoUrl, i |-> 0,
   attempts |-> 0, delays |-> 0, waited |-> 0, acks |-> 0, elapsed |-> 0, seen |-> 0,
   result |-> 0, threw |-> FALSE, scheduled |-> 0]

InFlight(p) == proc[p].pc \in {"request", "delay"}
Done(p) == proc[p].pc \in {"returned", "raised"}

\* Resets already pending plus those a running setRefresh(true) may still add.
ResetLoad ==
  Len(resetTimers)
    + Cardinality({p \in Procs : InFlight(p) /\ proc[p].kind = "setRefresh"})

Init ==
  /\ reg1130 \in DeviceLevels
  /\ reg1161 = 0
  /\ writer1130 = "none"
  /\ proc = [p \in Procs |-> Idle]
  /\ resetTimers = <<>>
  /\ refreshOn = FALSE

(* --------------------------- hook entry ------------------------------- *)

\* The hook has built its url and entered retryRequest: i = 0, first axios get.
Started(kind, value, url) ==
  [Idle EXCEPT !.pc = "request", !.kind = kind, !.arg = value, !.url = url,
               !.attempts = 1]

setActive(p, value) ==
  /\ proc[p].pc = "idle"
  /\ proc' = [proc EXCEPT ![p] = Started("setActive", value, ActiveUrl(value))]
  /\ UNCHANGED <<reg1130, reg1161, writer1130, resetTimers, refreshOn>>

getActive(p) ==
  /\ proc[p].pc = "idle"
  /\ proc' = [proc EXCEPT ![p] = Started("getActive", 0, ReadUrl(1130, 1))]
  /\ UNCHANGED <<reg1130, reg1161, writer1130, resetTimers, refreshOn>>

setRotationSpeed(p, value) ==
  /\ proc[p].pc = "idle"
  /\ proc' = [proc EXCEPT ![p] =
       Started("setRotationSpeed", value, WriteUrl(1130, SpeedLevel(value)))]
  /\ UNCHANGED <<reg1130, reg1161, writer1130, resetTimers, refreshOn>>

getRotationSpeed(p) ==
  /\ proc[p].pc = "idle"
  /\ proc' = [proc EXCEPT ![p] = Started("getRotationSpeed", 0, ReadUrl(1130, 1))]
  /\ UNCHANGED <<reg1130, reg1161, writer1130, resetTimers, refreshOn>>

getTimer(p) ==
  /\ proc[p].pc = "idle"
  /\ proc' = [proc EXCEPT ![p] = Started("getTimer", 0, ReadUrl(1110, 2))]
  /\ UNCHANGED <<reg1130, reg1161, writer1130, resetTimers, refreshOn>>

setRefresh(p, value) ==
  /\ proc[p].pc = "idle"
  /\ IF RefreshSkipped(value)
       THEN proc' = [proc EXCEPT ![p] =
              [Idle EXCEPT !.pc = "returned", !.kind = "setRefresh", !.arg = value]]
       ELSE /\ ResetLoad < MaxPendingResets
            /\ proc' = [proc EXCEPT ![p] = Started("setRefresh", value, WriteUrl(1161, 4))]
  /\ UNCHANGED <<reg1130, reg1161, writer1130, resetTimers, refreshOn>>

(* ----------------------------- device --------------------------------- *)

\* Names the hook call whose write is applied: setActive by what it asked for.
WriterTag(p) ==
  IF proc[p].kind = "setActive"
    THEN (IF Truthy(proc[p].arg) THEN "setActive(on)" ELSE "setActive(off)")
    ELSE proc[p].kind

\* What a request that reaches the device does to its registers.
DeviceApplies(p) ==
  LET u == proc[p].url IN
  /\ reg1130' = IF u.ep = "mwrite" /\ u.reg = 1130 THEN u.val ELSE reg1130
  /\ reg1161' = IF u.ep = "mwrite" /\ u.reg = 1161 THEN u.val ELSE reg1161
  /\ writer1130' = IF u.ep = "mwrite" /\ u.reg = 1130 THEN WriterTag(p) ELSE writer1130

\* response.data[register] of a read; raw is what register 1110 reports.
ResponseData(p, raw) ==
  LET u == proc[p].url IN
  IF u.ep = "mread" /\ u.reg = 1130 THEN reg1130
  ELSE IF u.ep = "mread" /\ u.reg = 1110 THEN raw
  ELSE 0

(* --------------------------- retryRequest ----------------------------- *)

\* Values register 1110 may report to the request in flight (a request for
\* any other register is not answered from 1110).
TimerReports(p) == IF proc[p].url.reg = 1110 THEN RawTimers ELSE {0}
RaceReports(p) == IF proc[p].url.reg = 1110 THEN {TimerMax + TimerSlack} ELSE {0}

\* What the hook returns once retryRequest has returned a response.
HookResult(kind, data) ==
  CASE kind = "getActive" -> IsActive(data)
    [] kind = "getRotationSpeed" -> SpeedPercentage(data)
    [] kind = "getTimer" -> ClampTimer(data)
    [] OTHER -> 0

\* axios get resolves after d ms: retryRequest returns and the hook finishes.
axiosResolves(p, d, raw) ==
  /\ proc[p].pc = "request"
  /\ DeviceApplies(p)
  /\ LET data == ResponseData(p, raw)
         refresh == proc[p].kind = "setRefresh"
     IN /\ proc' = [proc EXCEPT ![p] =
              [@ EXCEPT !.pc = "returned", !.acks = @ + 1, !.elapsed = @ + d,
                        !.seen = data, !.result = HookResult(proc[p].kind, data),
                        !.scheduled = IF refresh THEN @ + 1 ELSE @]]
        /\ resetTimers' = IF refresh THEN Append(resetTimers, RefreshResetDelay)
                          ELSE resetTimers
  /\ UNCHANGED refreshOn

\* axios get rejects after d ms (refused, reset, or timed out at d = Timeout);
\* landed says whether the device had acted on the request before it failed.
axiosRejects(p, d, landed) ==
  /\ proc[p].pc = "request"
  /\ IF landed THEN DeviceApplies(p) ELSE UNCHANGED <<reg1130, reg1161, writer1130>>
  /\ IF proc[p].i = DefaultRetries - 1
       THEN proc' = [proc EXCEPT ![p] =
              [@ EXCEPT !.pc = IF CatchesFailure(proc[p].kind) THEN "returned" ELSE "raised",
                        !.elapsed = @ + d, !.threw = TRUE, !.result = 0]]
       ELSE proc' = [proc EXCEPT ![p] = [@ EXCEPT !.pc = "delay", !.elapsed = @ + d]]
  /\ UNCHANGED <<resetTimers, refreshOn>>

\* The 1 s pause ends: i++ and the next axios get is issued.
retryDelayElapses(p) ==
  /\ proc[p].pc = "delay"
  /\ proc' = [proc EXCEPT ![p] =
       [@ EXCEPT !.pc = "request", !.i = @ + 1, !.attempts = @ + 1,
                 !.delays = @ + 1, !.waited = @ + RetryDelay,
                 !.elapsed = @ + RetryDelay]]
  /\ UNCHANGED <<reg1130, reg1161, writer1130, resetTimers, refreshOn>>

(* ------------------------------ host ---------------------------------- *)

\* The oldest pending reset callback runs: updateValue(false).
resetFires ==
  /\ resetTimers # <<>>
  /\ resetTimers' = Tail(resetTimers)
  /\ refreshOn' = FALSE
  /\ UNCHANGED <<reg1130, reg1161, writer1130, proc>>

\* The host has the hook's value or error; the slot is free for another call.
hostTakes(p) ==
  /\ Done(p)
  /\ proc' = [proc EXCEPT ![p] = Idle]
  /\ UNCHANGED <<reg1130, reg1161, writer1130, resetTimers, refreshOn>>

(* -------------------------- specifications ---------------------------- *)

\* One hook at a time, every input and every request duration.
Next ==
  \/ \E value \in Flags : setActive(1, value)
  \/ getActive(1)
  \/ \E value \in Percents : setRotationSpeed(1, value)
  \/ getRotationSpeed(1)
  \/ \E value \in Flags : setRefresh(1, value)
  \/ getTimer(1)
  \/ \E d \in Durations, raw \in TimerReports(1) : axiosResolves(1, d, raw)
  \/ \E d \in Durations, landed \in BOOLEAN : axiosRejects(1, d, landed)
  \/ retryDelayElapses(1)
  \/ resetFires
  \/ hostTakes(1)

Spec == Init /\ [][Next]_vars

\* Several hooks at once.  Requests settle at once here: only the order of the
\* steps of different hooks matters.
NextRace ==
  \E p \in Procs :
    \/ \E value \in Flags : setActive(p, value)
    \/ getActive(p)
    \/ \E value \in RacePercents : setRotationSpeed(p, value)
    \/ \E d \in Instant, raw \in RaceReports(p) : axiosResolves(p, d, raw)
    \/ \E d \in Instant, landed \in BOOLEAN : axiosRejects(p, d, landed)
    \/ retryDelayElapses(p)
    \/ hostTakes(p)

\* A request settles (axios resolves, rejects or times out) and a setTimeout
\* callback runs: the event loop leaves neither pending forever.
Settles(p) ==
  \/ \E d \in Instant, raw \in RaceReports(p) : axiosResolves(p, d, raw)
  \/ \E d \in Instant, landed \in BOOLEAN : axiosRejects(p, d, landed)
  \/ retryDelayElapses(p)

RaceSpec ==
  /\ Init
  /\ [][NextRace]_vars
  /\ \A p \in Procs : WF_vars(Settles(p))


(* ------------------------------ claims -------------------------------- *)

Hooks1130 == {"setActive", "getActive", "setRotationSpeed", "getRotationSpeed"}
GetHooks == {"getActive", "getRotationSpeed", "getTimer"}

\* C1: retryRequest makes at most 3 attempts and 2 pauses; a success on the
\* third attempt follows exactly 2 pauses of 1000 ms; after 3 failures the error
\* is thrown with only 2 pauses behind it; once an attempt has succeeded the
\* hook is finished and no request is outstanding.
RetryBudgetHolds ==
  \A p \in Procs :
    LET r == proc[p] IN
    /\ r.attempts <= 3
    /\ r.delays <= 2
    /\ r.attempts > 0 => r.delays = r.attempts - 1
    /\ r.waited = r.delays * 1000
    /\ (r.acks = 1 /\ r.attempts = 3) => (r.delays = 2 /\ r.waited = 2000 /\ ~r.threw)
    /\ r.threw => (r.attempts = 3 /\ r.delays = 2 /\ r.acks = 0 /\ Done(p))
    /\ r.acks > 0 => (r.acks = 1 /\ r.pc = "returned")

ThirdAttemptSucceeded ==
  \E p \in Procs :
    proc[p].pc = "returned" /\ proc[p].acks = 1 /\ proc[p].attempts = 3

\* C2: when retryRequest has thrown, getTimer still returns, with 0, and every
\* other hook raises the error to the host; getTimer never raises.
FailurePropagation ==
  \A p \in Procs :
    LET r == proc[p] IN
    /\ (r.threw /\ r.kind = "getTimer") => (r.pc = "returned" /\ r.result = 0)
    /\ (r.threw /\ r.kind # "getTimer") =>
         (r.pc = "raised"
            /\ r.kind \in {"setActive", "getActive", "setRotationSpeed",
                           "getRotationSpeed", "setRefresh"})
    /\ r.kind = "getTimer" => r.pc # "raised"
    /\ r.pc = "raised" => r.threw

TimerSwallowedFailure ==
  \E p \in Procs :
    proc[p].kind = "getTimer" /\ proc[p].threw /\ proc[p].pc = "returned"
      /\ proc[p].attempts = 3

\* C3: setRotationSpeed(p) addresses only register 1130, with level 0 for
\* p = 0, 2 for 1..34, 3 for 35..57 and 4 for 58 and above; a request of it that
\* reaches the device leaves that level in 1130 and leaves 1161 alone.
ClaimedLevel(pct) ==
  IF pct = 0 THEN 0
  ELSE IF pct \in 1..34 THEN 2
  ELSE IF pct \in 35..57 THEN 3
  ELSE 4

SpeedBuckets ==
  [][\A p \in Procs :
       (proc[p].kind = "setRotationSpeed" /\ proc[p].pc = "request") =>
         /\ proc[p].arg \in 0..MaxPercent
         /\ proc[p].url = [ep |-> "mwrite", reg |-> 1130, val |-> ClaimedLevel(proc[p].arg)]
         /\ proc'[p] # proc[p] =>
              /\ reg1161' = reg1161
              /\ reg1130' \in {reg1130, ClaimedLevel(proc[p].arg)}
              /\ proc'[p].pc = "returned" => reg1130' = ClaimedLevel(proc[p].arg)]_vars

SpeedBucketEdgeWritten ==
  \E p \in Procs :
    /\ proc[p].kind = "setRotationSpeed" /\ proc[p].arg = 57
    /\ proc[p].pc = "returned" /\ reg1130 = 3

\* C4: getRotationSpeed returns 25, 45 or 70 for a reported level 2, 3 or 4
\* and 0 for every other reported value, and nothing else.
SpeedReadback ==
  \A p \in Procs :
    (proc[p].kind = "getRotationSpeed" /\ Done(p)) =>
      /\ proc[p].result \in {0, 25, 45, 70}
      /\ proc[p].acks = 1 =>
           /\ proc[p].seen = 2 => proc[p].result = 25
           /\ proc[p].seen = 3 => proc[p].result = 45
           /\ proc[p].seen = 4 => proc[p].result = 70
           /\ proc[p].seen \notin {2, 3, 4} => proc[p].result = 0

UnknownLevelReadAsZero ==
  \E p \in Procs :
    /\ proc[p].kind = "getRotationSpeed" /\ proc[p].pc = "returned"
    /\ proc[p].seen = 5 /\ proc[p].result = 0

\* C5: getTimer returns a value in 0..100: 0 for a negative report, 100 for
\* a report above 100, the report itself otherwise.
TimerClamped ==
  \A p \in Procs :
    (proc[p].kind = "getTimer" /\ Done(p)) =>
      /\ proc[p].result \in 0..100
      /\ proc[p].acks = 1 =>
           /\ proc[p].seen < 0 => proc[p].result = 0
           /\ proc[p].seen > 100 => proc[p].result = 100
           /\ proc[p].seen \in 0..100 => proc[p].result = proc[p].seen
           /\ proc[p].seen = 0 - 50 => proc[p].result = 0
           /\ proc[p].seen = 50 => proc[p].result = 50
           /\ proc[p].seen = 150 => proc[p].result = 100

TimerAbove100Clamped ==
  \E p \in Procs :
    /\ proc[p].kind = "getTimer" /\ proc[p].pc = "returned"
    /\ proc[p].seen = 150 /\ proc[p].result = 100

\* C6 as stated: every finished setRefresh(true) has performed exactly one
\* write of 4 to register 1161 and has scheduled exactly one reset.
RefreshAlwaysWritesAndSchedules ==
  \A p \in Procs :
    (proc[p].kind = "setRefresh" /\ proc[p].arg # 0 /\ Done(p)) =>
      /\ proc[p].url = [ep |-> "mwrite", reg |-> 1161, val |-> 4]
      /\ proc[p].acks = 1
      /\ proc[p].scheduled = 1

\* C6 as amended: setRefresh(true) addresses only register 1161 with value
\* 4; when an attempt succeeds it is the only acknowledged write, exactly one
\* reset is scheduled, with a delay of 1000 ms, it is still pending when the
\* hook returns, and when it runs it sets the switch to false; when all
\* attempts fail the hook raises and has scheduled no reset.
RefreshWritesOnceAndSchedulesOnSuccess ==
  [][\A p \in Procs :
       (proc[p].kind = "setRefresh" /\ proc[p].arg # 0) =>
         /\ proc[p].url = [ep |-> "mwrite", reg |-> 1161, val |-> 4]
         /\ proc[p].attempts \in 1..3
         /\ proc[p].pc = "raised" => proc[p].attempts = 3
         /\ proc[p].pc = "returned" => (proc[p].acks = 1 /\ proc[p].scheduled = 1)
         /\ proc[p].pc # "returned" => (proc[p].acks = 0 /\ proc[p].scheduled = 0)
         /\ (proc[p].pc = "request" /\ proc'[p].pc = "returned") =>
              /\ reg1161' = 4 /\ reg1130' = reg1130
              /\ resetTimers' = resetTimers \o <<1000>>
              /\ refreshOn' = refreshOn
              /\ proc'[p].elapsed <= proc[p].elapsed + 20000
         /\ (proc'[p] # proc[p] /\ proc'[p].pc # "returned") =>
              resetTimers' = resetTimers
         /\ Len(resetTimers') < Len(resetTimers) =>
              (refreshOn' = FALSE /\ Len(resetTimers') = Len(resetTimers) - 1)]_vars

RefreshReturnedResetPending ==
  \E p \in Procs :
    /\ proc[p].kind = "setRefresh" /\ proc[p].arg # 0 /\ proc[p].pc = "returned"
    /\ proc[p].attempts = 2 /\ reg1161 = 4 /\ resetTimers = <<1000>>

\* C7: setRefresh(false) returns at once: it issues no request, schedules no
\* reset and changes no register, no pending reset and not the switch.
RefreshFalseIsNoOp ==
  [][\A p \in Procs :
       /\ (proc[p].kind = "setRefresh" /\ proc[p].arg = 0) =>
            /\ proc[p].pc = "returned" /\ proc[p].attempts = 0 /\ proc[p].acks = 0
            /\ proc[p].url = NoUrl /\ proc[p].scheduled = 0
       /\ (proc'[p].kind = "setRefresh" /\ proc'[p].arg = 0 /\ proc[p].pc = "idle") =>
            /\ proc'[p].pc = "returned" /\ proc'[p].attempts = 0
            /\ UNCHANGED <<reg1130, reg1161, writer1130, resetTimers, refreshOn>>]_vars

RefreshFalseWhileResetPending ==
  \E p \in Procs :
    /\ proc[p].kind = "setRefresh" /\ proc[p].arg = 0 /\ proc[p].pc = "returned"
    /\ reg1161 = 4 /\ resetTimers # <<>>

\* C8 as stated: every get hook has returned or failed within about 23 s.
GetWithin23Seconds ==
  \A p \in Procs :
    (proc[p].kind \in GetHooks /\ Done(p)) => proc[p].elapsed <= 23000

\* C8 as amended: every get hook returns or fails within three timeouts of
\* 20 s and two retry delays of 1 s, 62 s in all.
GetWithin62Seconds ==
  \A p \in Procs :
    proc[p].kind \in GetHooks =>
      /\ proc[p].elapsed <= 3 * 20000 + 2 * 1000
      /\ InFlight(p) => proc[p].elapsed <= 2 * 20000 + 2 * 1000

GetTook62Seconds ==
  \E p \in Procs :
    proc[p].kind \in GetHooks /\ Done(p) /\ proc[p].elapsed = 62000

\* C9: while the last write that reached register 1130 is a setActive(true)
\* the register holds 1, getActive returns 1 and getRotationSpeed returns 0;
\* while it is a setActive(false) the register holds 0 and both return 0.
ActiveForgetsSpeed ==
  [][/\ writer1130 = "setActive(on)" => reg1130 = 1
     /\ writer1130 = "setActive(off)" => reg1130 = 0
     /\ \A p \in Procs :
          (proc[p].pc = "request" /\ proc'[p].pc = "returned") =>
            /\ (writer1130 = "setActive(on)" /\ proc[p].kind = "getActive") =>
                 proc'[p].result = 1
            /\ (writer1130 = "setActive(on)" /\ proc[p].kind = "getRotationSpeed") =>
                 proc'[p].result = 0
            /\ (writer1130 = "setActive(off)"
                  /\ proc[p].kind \in {"getActive", "getRotationSpeed"}) =>
                 proc'[p].result = 0]_vars

SpeedZeroWhileOn ==
  \E p \in Procs :
    /\ writer1130 = "setActive(on)" /\ reg1130 = 1
    /\ proc[p].kind = "getRotationSpeed" /\ proc[p].pc = "returned"
    /\ proc[p].seen = 1 /\ proc[p].result = 0

\* C10: with several hooks in flight, each counts its own attempts, never
\* more than 3; a step of one hook leaves every other hook's position and
\* counters alone; a hook in flight can always take its next step whatever the
\* others are doing; and every hook in flight gets out of flight (returns or
\* raises).
HooksRaceIndependently ==
  /\ [](\A p \in Procs :
          /\ proc[p].attempts <= 3
          /\ InFlight(p) => proc[p].attempts = proc[p].i + 1
          /\ InFlight(p) => ENABLED Settles(p))
  /\ [][\A p, q \in Procs :
          (p # q /\ proc'[p] # proc[p]) => proc'[q] = proc[q]]_vars
  /\ \A p \in Procs : []<>(~InFlight(p))

\* Two writes to 1130 in flight together: hook 1 waits in its retry delay after
\* a failed attempt, hook 2 is on its third attempt, and the device holds the
\* level that one of hook 2's failed attempts left there.
WritesRaced ==
  /\ proc[1].kind = "setActive" /\ proc[1].arg = 1 /\ proc[1].pc = "delay"
  /\ proc[2].kind = "setRotationSpeed" /\ proc[2].pc = "request"
  /\ proc[2].attempts = 3
  /\ writer1130 = "setRotationSpeed" /\ reg1130 = 4

====
